---- MODULE Spec2Model ----
(***************************************************************************)
(* A model of tools_for_todoist/models/event.py (class CalendarEvent).     *)
(*                                                                         *)
(* Python objects live on two heaps: CalendarEvent objects (events) and    *)
(* the mutable extendedProperties dicts nested in raw records (dicts).     *)
(* References are addresses, so aliasing and copy.deepcopy are explicit.   *)
(*                                                                         *)
(* Time: an instant is a count of ticks since an epoch, a calendar date is *)
(* a day number; a day has TicksPerDay ticks.  A datetime.date and a       *)
(* datetime.datetime are different Python values: == between them is      *)
(* False, ordering between them raises TypeError, and a date has no        *)
(* .date() / .astimezone() method.                                         *)
(***************************************************************************)
EXTENDS Integers, Sequences, FiniteSets, TLC

\* ------------------------------------------------------------------ bounds
TicksPerDay == 2        \* clock resolution of the model: ticks in one day
MaxDay == 4             \* exception starts and `after` lie in days 1..MaxDay
MaxExceptions == 2      \* exception ids known to the calendar source
MaxCount == 3           \* COUNT= of the finite rule
MaxAttendees == 2       \* longest attendee list of SpecAttendees

\* ------------------------------------------------------- Python date values
NoneV == [type |-> "None", v |-> 0, tz |-> "", aware |-> FALSE]
\* datetime.date: v is the day number
PyDate(d) == [type |-> "date", v |-> d, tz |-> "", aware |-> FALSE]
\* timezone-aware datetime.datetime: v is the instant (UTC ticks), tz the zone
PyDateTime(t, z) == [type |-> "datetime", v |-> t, tz |-> z, aware |-> TRUE]
\* naive datetime.datetime: v is the wall-clock tick
PyNaive(t) == [type |-> "datetime", v |-> t, tz |-> "", aware |-> FALSE]

\* dateutil.tz.gettz: the zone's UTC offset in ticks (no DST in the model)
UtcOffset(z) == IF z = "Pacific/Auckland" THEN TicksPerDay \div 2 ELSE 0

\* x < y, x <= y, x > y are defined between two dates, or two datetimes of the
\* same awareness; anything else raises TypeError
Comparable(x, y) == /\ x.type = y.type
                    /\ x.type # "None"
                    /\ x.aware = y.aware
\* x == y (never raises; a date never equals a datetime, aware never naive)
PyEq(x, y) == x.type = y.type /\ x.aware = y.aware /\ x.v = y.v
PyLt(x, y) == x.v < y.v
PyLe(x, y) == x.v <= y.v

\* datetime.date() of a datetime
DateOf(x) == IF x.aware THEN PyDate((x.v + UtcOffset(x.tz)) \div TicksPerDay)
             ELSE PyDate(x.v \div TicksPerDay)
\* datetime.astimezone(tz) of an aware datetime: same instant, other zone
AsTimezone(x, z) == PyDateTime(x.v, z)

\* ----------------------------------------------------- utils (not in src/)
is_allday(x) == x.type = "date"
ensure_datetime(x) == IF is_allday(x) THEN PyNaive(x.v * TicksPerDay) ELSE x
\* `after` in the shape of the series' start
datetime_as(x, as) ==
    IF is_allday(as)
    THEN (IF is_allday(x) THEN x ELSE DateOf(x))
    ELSE (IF is_allday(x)
          THEN PyDateTime(x.v * TicksPerDay - UtcOffset(as.tz), as.tz)
          ELSE AsTimezone(x, as.tz))

\* ------------------------------------------------------------- raw records
default_timezone == "Pacific/Auckland"

AbsentStart == [key |-> "absent", v |-> 0, timeZone |-> ""]
RawDate(d) == [key |-> "date", v |-> d, timeZone |-> ""]
\* timeZone "" : the record has no timeZone field
RawDateTime(t, z) == [key |-> "dateTime", v |-> t, timeZone |-> z]

NoRecurrence == [present |-> FALSE, interval |-> 0, count |-> 0]
\* ['RRULE:FREQ=DAILY;INTERVAL=i;COUNT=c'], count 0: no COUNT, unbounded
Daily(i, c) == [present |-> TRUE, interval |-> i, count |-> c]

NoAttendees == [present |-> FALSE, list |-> <<>>]
Attendees(l) == [present |-> TRUE, list |-> l]
Attendee(s, r, st) == [self |-> s, resource |-> r, responseStatus |-> st]

\* extendedProperties is the address of a dict object, 0 when the key is absent
Raw(i, su, st, s, o, r, a, x) ==
    [id |-> i, summary |-> su, status |-> st, start |-> s,
     originalStartTime |-> o, recurrence |-> r, attendees |-> a,
     extendedProperties |-> x]
NoRaw == Raw(-1, "", "", AbsentStart, AbsentStart, NoRecurrence, NoAttendees, 0)

\* ------------------------------------------------------------------- state
VARIABLES
    events,     \* heap of CalendarEvent objects: address -> fields
    dicts,      \* heap of extendedProperties dicts: address -> value
    orig,       \* the driver's cached event (address)
    cpy,        \* the driver's deep copy of it (address, 0: none)
    callerRaw,  \* the record object the caller last passed for the cached event
    passed,     \* record id -> the value of the record last passed in with that id
    created,    \* record id -> whether the record given to from_raw was all-day
    saved,      \* key -> the value last given to save_private_info since then
    after,      \* argument of the last next_occurrence call (NoneV: none)
    result,     \* what that call returned or raised
    recent,     \* the last call that wrote to the cached event
    sent        \* what the save() made since then sent to the calendar

vars == <<events, dicts, orig, cpy, callerRaw, passed, created, saved, after, result,
          recent, sent>>

\* ---------------------------------------------------------------- the heap
Fresh(h) == CHOOSE a \in 1..(Cardinality(DOMAIN h) + 1) :
                a \notin DOMAIN h /\ \A b \in 1..(a - 1) : b \in DOMAIN h
Alloc(h, a, x) == h @@ (a :> x)

\* copy.deepcopy(raw): the nested dict is copied into a new object
deepcopy_raw(D, raw) ==
    IF raw.extendedProperties = 0
    THEN [dicts |-> D, raw |-> raw]
    ELSE LET a == Fresh(D)
         IN [dicts |-> Alloc(D, a, D[raw.extendedProperties]),
             raw |-> [raw EXCEPT !.extendedProperties = a]]

\* ----------------------------------------------------------- CalendarEvent
\* values of extendedProperties['private']: a str, a number, or None/absent
NoneP == [t |-> "None", s |-> ""]
StrP(x) == [t |-> "str", s |-> x]
IntP(x) == [t |-> "int", s |-> x]
\* str(value)
Str(x) == [t |-> "str", s |-> x.s]

Keys == {"todoist_id", "last_sync"}
\* a dict object {'private': {...}} or a dict without the 'private' key
NoPrivate == [hasPrivate |-> FALSE, private |-> [k \in Keys |-> NoneP]]
Private(f) == [hasPrivate |-> TRUE, private |-> f]

\* __init__
NewEvent == [id |-> -1, raw |-> NoRaw, summary |-> "None", ext |-> 0,
             exceptions |-> <<>>, recurring_event |-> 0]

\* A heap H is [events |-> ..., dicts |-> ...]; methods that change objects
\* take the heap and return the heap after the call.

\* an update that keeps the start the event was created with
update_from_raw_keep_start(H, self, raw) ==
    LET c == deepcopy_raw(H.dicts, raw)
        old == H.events[self].raw
        new == IF old = NoRaw THEN c.raw ELSE [c.raw EXCEPT !.start = old.start]
    IN [events |-> [H.events EXCEPT ![self] =
                       [@ EXCEPT !.raw = new,
                                 !.ext = new.extendedProperties,
                                 !.summary = new.summary]],
        dicts |-> c.dicts]

update_from_raw(H, self, raw) ==
    LET c == deepcopy_raw(H.dicts, raw)
    IN [events |-> [H.events EXCEPT ![self] =
                       [@ EXCEPT !.raw = c.raw,
                                 !.ext = c.raw.extendedProperties,
                                 !.summary = c.raw.summary]],
        dicts |-> c.dicts]

from_raw(H, raw) ==
    LET a == Fresh(H.events)
        H1 == [H EXCEPT !.events = Alloc(H.events, a, [NewEvent EXCEPT !.id = raw.id])]
    IN [heap |-> update_from_raw(H1, a, raw), event |-> a]

\* position of key k in the insertion-ordered dict self.exceptions, 0 if absent
KeyIndex(excs, k) ==
    IF \E i \in 1..Len(excs) : excs[i].key = k
    THEN CHOOSE i \in 1..Len(excs) : excs[i].key = k
    ELSE 0

update_exception(H, self, exception) ==
    LET i == KeyIndex(H.events[self].exceptions, exception.id)
    IN IF i = 0
       THEN LET r == from_raw(H, exception)
            IN [r.heap EXCEPT !.events =
                   [@ EXCEPT ![r.event].recurring_event = self,
                             ![self].exceptions =
                                 Append(@, [key |-> exception.id, event |-> r.event])]]
       ELSE update_from_raw(H, H.events[self].exceptions[i].event, exception)

\* for event_instance in self.exceptions.values(): event.update_exception(...)
RECURSIVE CopyExceptions(_, _, _, _)
CopyExceptions(H, event, excs, i) ==
    IF i > Len(excs) THEN H
    ELSE CopyExceptions(update_exception(H, event, H.events[excs[i].event].raw),
                        event, excs, i + 1)

\* a copy that shares the exception objects of its source
deep_copy_shallow(H, self) ==
    LET r == from_raw(H, H.events[self].raw)
    IN [heap |-> [r.heap EXCEPT !.events[r.event].exceptions =
                                    H.events[self].exceptions],
        event |-> r.event]

deep_copy(H, self) ==
    LET r == from_raw(H, H.events[self].raw)
    IN [heap |-> CopyExceptions(r.heap, r.event, H.events[self].exceptions, 1),
        event |-> r.event]

\* self._extended_properties['private'][key] = value, creating 'private'
SetPrivate(d, key, value) ==
    Private([(IF d.hasPrivate THEN d.private ELSE NoPrivate.private)
                EXCEPT ![key] = value])

\* a save that writes into the dict it has, without copying it first
save_private_info_in_place(H, self, key, value) ==
    LET old == H.events[self].ext
        a == Fresh(H.dicts)
    IN IF old = 0
       THEN [events |-> [H.events EXCEPT ![self].ext = a],
             dicts |-> Alloc(H.dicts, a, SetPrivate(NoPrivate, key, Str(value)))]
       ELSE [events |-> H.events,
             dicts |-> [H.dicts EXCEPT ![old] = SetPrivate(@, key, Str(value))]]

save_private_info(H, self, key, value) ==
    LET old == H.events[self].ext
        a == Fresh(H.dicts)
        \* {} when there is none, else copy.deepcopy of the current dict
        d == IF old = 0 THEN NoPrivate ELSE H.dicts[old]
    IN [events |-> [H.events EXCEPT ![self].ext = a],
        dicts |-> Alloc(H.dicts, a, SetPrivate(d, key, Str(value)))]

get_private_info(H, self, key) ==
    LET x == H.events[self].ext
    IN IF x = 0 THEN NoneP
       ELSE IF H.dicts[x].hasPrivate THEN H.dicts[x].private[key] ELSE NoneP

_get_timezone(raw_start) ==
    LET raw_timezone == IF raw_start.timeZone = "" THEN default_timezone
                        ELSE raw_start.timeZone
    IN IF raw_timezone = "UTC" THEN "Europe/London" ELSE raw_timezone

_parse_start(raw_start) ==
    IF raw_start.key = "date" THEN PyDate(raw_start.v)
    ELSE PyDateTime(raw_start.v, _get_timezone(raw_start))

\* the read-only methods take the event's fields
start(ev) == _parse_start(ev.raw.start)
_get_original_start(ev) == _parse_start(ev.raw.originalStartTime)

_is_cancelled(ev) == ev.raw.status = "cancelled"

attendees(ev) == IF ev.raw.attendees.present THEN ev.raw.attendees.list ELSE <<>>

response_status(ev) ==
    LET l == attendees(ev)
    IN IF \E i \in 1..Len(l) : l[i].self
       THEN l[CHOOSE i \in 1..Len(l) :
                  l[i].self /\ \A j \in 1..(i - 1) : ~l[j].self].responseStatus
       ELSE "None"

is_declined_by_me(ev) == response_status(ev) = "declined"

IsOther(x) == ~x.self /\ ~x.resource

\* all of no attendees have declined
is_declined_by_others_vacuous(ev) ==
    LET other_attendees == SelectSeq(attendees(ev), IsOther)
    IN \A i \in 1..Len(other_attendees) :
           other_attendees[i].responseStatus = "declined"

is_declined_by_others(ev) ==
    LET other_attendees == SelectSeq(attendees(ev), IsOther)
        all_declined == \A i \in 1..Len(other_attendees) :
                            other_attendees[i].responseStatus = "declined"
    IN Len(other_attendees) > 0 /\ all_declined

\* ------------------------------------------------------------- recurrence
\* the lines of the model carry no UNTIL, which fix_utc leaves untouched
_get_recurrence(ev) == ev.raw.recurrence

\* instances an unbounded rule is expanded to: more than the slots up to the
\* latest `after` plus one overridden slot per exception
Horizon == MaxDay + MaxExceptions + 1

\* rrulestr(rrule, dtstart=ensure_datetime(self.start())): the rule's instants
\* in increasing order, each a datetime of dtstart's awareness and zone
_get_rrule(ev) ==
    LET rrule == _get_recurrence(ev)
        start_date == ensure_datetime(start(ev))
        n == IF rrule.count > 0 THEN rrule.count ELSE Horizon
    IN [k \in 1..n |->
           [start_date EXCEPT !.v = @ + (k - 1) * rrule.interval * TicksPerDay]]

\* rrule.xafter(dt): the instants after dt, in increasing order
xafter(rrule_instances, dt) ==
    LET After(x) == x.v > dt.v
    IN SelectSeq(rrule_instances, After)

\* what a call returns or raises
Return(when, source) == [exc |-> "", when |-> when, source |-> source]
Raise(e) == [exc |-> e, when |-> NoneV, source |-> 0]
NoCall == [exc |-> "no call", when |-> NoneV, source |-> 0]

\* the exceptions (addresses, in dict order) that are not cancelled or declined
Qualifying(E, self) ==
    LET Ok(x) == ~(\/ _is_cancelled(E[x.event])
                   \/ is_declined_by_me(E[x.event])
                   \/ is_declined_by_others(E[x.event]))
    IN SelectSeq(E[self].exceptions, Ok)

\* min(..., default=(None, None), key=lambda x: x[0]): the first of the
\* candidates with the least start
FirstMin(E, cands) ==
    IF Len(cands) = 0 THEN Return(NoneV, 0)
    ELSE LET i == CHOOSE i \in 1..Len(cands) :
                    /\ \A j \in 1..Len(cands) :
                           PyLe(start(E[cands[i].event]), start(E[cands[j].event]))
                    /\ \A j \in 1..(i - 1) :
                           PyLt(start(E[cands[i].event]), start(E[cands[j].event]))
         IN Return(start(E[cands[i].event]), cands[i].event)

\* a walk that reports the first regular instant, overridden or not
Walk_no_skip(self, regular, i, first_exception_start, exception_original_starts) ==
    IF i > Len(regular) THEN first_exception_start
    ELSE IF /\ first_exception_start.when # NoneV
            /\ ~Comparable(first_exception_start.when, regular[i])
    THEN Raise("TypeError")
    ELSE IF /\ first_exception_start.when # NoneV
            /\ PyLe(first_exception_start.when, regular[i])
    THEN first_exception_start
    ELSE Return(regular[i], self)

\* for next_regular_occurrence in rrule_instances.xafter(...)
RECURSIVE Walk(_, _, _, _, _)
Walk(self, regular, i, first_exception_start, exception_original_starts) ==
    IF i > Len(regular) THEN first_exception_start
    ELSE LET next_regular_occurrence == regular[i]
         IN IF /\ first_exception_start.when # NoneV
               /\ ~Comparable(first_exception_start.when, next_regular_occurrence)
            THEN Raise("TypeError")
            ELSE IF /\ first_exception_start.when # NoneV
                    /\ PyLe(first_exception_start.when, next_regular_occurrence)
            THEN first_exception_start
            ELSE IF ~\E o \in exception_original_starts :
                        PyEq(next_regular_occurrence, o)
            THEN Return(next_regular_occurrence, self)
            ELSE Walk(self, regular, i + 1, first_exception_start,
                      exception_original_starts)

_find_next_occurrence(E, self, rrule_instances, after_dt) ==
    LET non_cancelled == Qualifying(E, self)
        Future(x) == PyLt(after_dt, start(E[x.event]))
        first_exception_start == FirstMin(E, SelectSeq(non_cancelled, Future))
        exception_original_starts ==
            {_get_original_start(E[E[self].exceptions[i].event]) :
                 i \in 1..Len(E[self].exceptions)}
    IN IF \E i \in 1..Len(non_cancelled) :
              ~Comparable(start(E[non_cancelled[i].event]), after_dt)
       THEN Raise("TypeError")
       ELSE IF is_declined_by_me(E[self]) \/ is_declined_by_others(E[self])
       THEN first_exception_start
       ELSE Walk(self, xafter(rrule_instances, ensure_datetime(after_dt)), 1,
                 first_exception_start, exception_original_starts)

\* a single event that is also dropped when it is cancelled
single_occurrence_cancelled(E, self, after_dt) ==
    LET is_declined == \/ is_declined_by_me(E[self])
                       \/ is_declined_by_others(E[self])
                       \/ _is_cancelled(E[self])
    IN IF PyLt(after_dt, start(E[self])) /\ ~is_declined
       THEN Return(start(E[self]), self) ELSE Return(NoneV, 0)

\* the branch of next_occurrence for an event without recurrence
single_occurrence(E, self, after_dt) ==
    LET is_declined == \/ is_declined_by_me(E[self])
                       \/ is_declined_by_others(E[self])
    IN IF PyLt(after_dt, start(E[self])) /\ ~is_declined
       THEN Return(start(E[self]), self) ELSE Return(NoneV, 0)

next_occurrence(E, self, after_arg) ==
    LET start_ == start(E[self])
        after_dt == datetime_as(after_arg, start_)
    IN IF ~_get_recurrence(E[self]).present
       THEN single_occurrence(E, self, after_dt)
       ELSE LET r == _find_next_occurrence(E, self, _get_rrule(E[self]), after_dt)
            IN IF r.exc # "" \/ r.when = NoneV THEN r
               \* a datetime.date has neither .date() nor .astimezone()
               ELSE IF r.when.type = "date" THEN Raise("AttributeError")
               ELSE IF is_allday(start_) THEN Return(DateOf(r.when), r.source)
               ELSE Return(AsTimezone(r.when, start_.tz), r.source)

\* ------------------------------------------------ records and live objects
\* The value of a record: the nested dict by value instead of by address.
DictView(D, a) == [present |-> a # 0, d |-> IF a = 0 THEN NoPrivate ELSE D[a]]
RawView(D, raw) == [raw EXCEPT !.extendedProperties = DictView(D, @)]
\* The caller builds the record object whose value is `view`.
Materialize(D, view) ==
    IF view.extendedProperties.present
    THEN LET a == Fresh(D)
         IN [dicts |-> Alloc(D, a, view.extendedProperties.d),
             raw |-> [view EXCEPT !.extendedProperties = a]]
    ELSE [dicts |-> D, raw |-> [view EXCEPT !.extendedProperties = 0]]

\* Objects nothing refers to any more are dropped and the live ones are
\* numbered in the order they are reached from the driver's references
\* (an address is not observable, only whether two references are the same).
Range(s) == {s[i] : i \in DOMAIN s}
AppendNew(s, a) == IF a = 0 \/ a \in Range(s) THEN s ELSE Append(s, a)
RECURSIVE AppendAll(_, _, _)
AppendAll(s, as, i) ==
    IF i > Len(as) THEN s ELSE AppendAll(AppendNew(s, as[i]), as, i + 1)
Index(s, a) == IF a = 0 THEN 0 ELSE CHOOSE i \in 1..Len(s) : s[i] = a
ExceptionEvents(E, e) == [i \in 1..Len(E[e].exceptions) |-> E[e].exceptions[i].event]
LiveEvents(E, o, c) ==
    LET s1 == AppendAll(<<o>>, ExceptionEvents(E, o), 1)
    IN IF c = 0 THEN s1 ELSE AppendAll(AppendNew(s1, c), ExceptionEvents(E, c), 1)
RECURSIVE LiveDicts(_, _, _, _)
LiveDicts(E, evs, i, s) ==
    IF i > Len(evs) THEN s
    ELSE LiveDicts(E, evs, i + 1,
                   AppendNew(AppendNew(s, E[evs[i]].raw.extendedProperties),
                             E[evs[i]].ext))
Collect(H, o, c, caller) ==
    LET evs == LiveEvents(H.events, o, c)
        ds == AppendNew(LiveDicts(H.events, evs, 1, <<>>), caller.extendedProperties)
        Moved(ev) ==
            [ev EXCEPT !.raw.extendedProperties = Index(ds, @),
                       !.ext = Index(ds, @),
                       !.recurring_event = Index(evs, @),
                       !.exceptions = [i \in 1..Len(@) |->
                                          [key |-> @[i].key,
                                           event |-> Index(evs, @[i].event)]]]
    IN [events |-> [i \in 1..Len(evs) |-> Moved(H.events[evs[i]])],
        dicts |-> [i \in 1..Len(ds) |-> H.dicts[ds[i]]],
        orig |-> Index(evs, o),
        cpy |-> Index(evs, c),
        callerRaw |-> [caller EXCEPT !.extendedProperties = Index(ds, @)]]

Heap == [events |-> events, dicts |-> dicts]
\* the state after a call that left heap H, with o and c the driver's events
\* and caller the record object the caller still holds
Becomes(H, o, c, caller) ==
    LET G == Collect(H, o, c, caller)
    IN /\ events' = G.events
       /\ dicts' = G.dicts
       /\ orig' = G.orig
       /\ cpy' = G.cpy
       /\ callerRaw' = G.callerRaw

\* ------------------------------------------------------------------- save
\* no save() since the event was last written to
NoSave == [saved |-> FALSE, calls |-> <<>>]
\* a save() and the update_event calls it made
Saved(calls) == [saved |-> TRUE, calls |-> calls]
\* updated_fields: per key, <<value>> if the key is in the dict, <<>> if not
NoFields == [summary |-> <<>>, extendedProperties |-> <<>>]

\* a save that tells a changed dict by its identity, not by its value
updated_fields_by_identity(H, self) ==
    LET e == H.events[self]
    IN [summary |-> IF e.summary # e.raw.summary THEN <<e.summary>> ELSE <<>>,
        extendedProperties |->
            IF e.ext # e.raw.extendedProperties
            THEN <<DictView(H.dicts, e.ext)>> ELSE <<>>]

\* the dict built by save(); != on dicts and None compares them by value
updated_fields(H, self) ==
    LET e == H.events[self]
        mine == DictView(H.dicts, e.ext)
        synced == DictView(H.dicts, e.raw.extendedProperties)
    IN [summary |-> IF e.summary # e.raw.summary THEN <<e.summary>> ELSE <<>>,
        extendedProperties |-> IF mine # synced THEN <<mine>> ELSE <<>>]

\* the calls save() makes to the calendar's update_event
save(H, self) ==
    LET fields == updated_fields(H, self)
    IN IF fields # NoFields
       THEN <<[id |-> H.events[self].id, fields |-> fields]>>
       ELSE <<>>

\* ------------------------------------------------------- the driver's calls
\* event.update_from_raw(record), the event being the cached one or its copy
UpdateFromRaw(t, records) ==
    \E view \in records :
        LET m == Materialize(dicts, view)
        IN /\ view.id = events[t].id
           /\ Becomes(update_from_raw([Heap EXCEPT !.dicts = m.dicts], t, m.raw),
                      orig, cpy, IF t = orig THEN m.raw ELSE callerRaw)
           /\ passed' = IF t = orig THEN [passed EXCEPT ![view.id] = view] ELSE passed
           /\ saved' = IF t = orig THEN [k \in Keys |-> NoneP] ELSE saved
           \* an earlier answer says nothing of the refreshed event
           /\ after' = NoneV
           /\ result' = NoCall
           /\ UNCHANGED created

\* event.save_private_info(key, value), value not None
SavePrivateInfo(t, keys, values) ==
    \E k \in keys, v \in values :
        /\ Becomes(save_private_info(Heap, t, k, v), orig, cpy, callerRaw)
        /\ saved' = IF t = orig THEN [saved EXCEPT ![k] = v] ELSE saved
        /\ UNCHANGED <<passed, created, after, result>>

\* event.summary = s
SetSummary(t, summaries) ==
    \E su \in summaries :
        /\ events' = [events EXCEPT ![t].summary = su]
        /\ UNCHANGED <<dicts, orig, cpy, callerRaw, passed, created, saved,
                       after, result>>

\* event.update_exception(record): a new instance or a refresh of a known one
UpdateExceptionOf(t, records) ==
    \E view \in records :
        LET m == Materialize(dicts, view)
            n == Len(events[t].exceptions)
            known == KeyIndex(events[t].exceptions, view.id) # 0
        IN /\ known \/ (n < MaxExceptions /\ view.id = n + 1)
           /\ Becomes(update_exception([Heap EXCEPT !.dicts = m.dicts], t, m.raw),
                      orig, cpy, callerRaw)
           /\ passed' = IF t = orig THEN (view.id :> view) @@ passed ELSE passed
           /\ created' = IF t = orig /\ ~known
                         THEN (view.id :> (view.start.key = "date")) @@ created
                         ELSE created
           /\ UNCHANGED <<saved, after, result>>

\* copy = event.deep_copy(), replacing the driver's earlier copy
DeepCopy ==
    LET r == deep_copy(Heap, orig)
    IN /\ Becomes(r.heap, orig, r.event, callerRaw)
       /\ UNCHANGED <<passed, created, saved, after, result>>

\* event.save() on the cached event: nothing of the event changes
Save ==
    /\ sent' = Saved(save(Heap, orig))
    /\ UNCHANGED <<events, dicts, orig, cpy, callerRaw, passed, created, saved,
                   after, result, recent>>
\* call c wrote to the cached event: a save() made before it is out of date
Noted(c) == recent' = c /\ sent' = NoSave
\* no save() is made and the calls made are not recorded
Quiet == UNCHANGED <<recent, sent>>
\* the event was just created by from_raw and not saved
Unsaved == recent = "from_raw" /\ sent = NoSave

\* ------------------------------------------------- the occurrence search
EmptyHeap == [events |-> <<>>, dicts |-> <<>>]

SelfDeclined == Attendees(<<Attendee(TRUE, FALSE, "declined")>>)
OthersDeclined == Attendees(<<Attendee(FALSE, FALSE, "declined")>>)

\* the series' records: all-day or timed (at each tick of day 1), single or
\* recurring, accepted or declined
MasterStarts == {RawDate(1)} \cup
                {RawDateTime(TicksPerDay + k, "UTC") : k \in 0..(TicksPerDay - 1)}
MasterRecurrences == {NoRecurrence, Daily(1, 0), Daily(1, MaxCount), Daily(2, 0)}
MasterRaws ==
    {Raw(0, "A", st, s, AbsentStart, r, a, 0) :
        st \in {"confirmed", "cancelled"},
        s \in MasterStarts, r \in MasterRecurrences,
        a \in {NoAttendees, SelfDeclined, OthersDeclined}}

\* the records of an instance of series m: its original start is a slot of
\* the rule, in the series' shape; its own start is any day up to MaxDay
OriginalStarts(m) ==
    LET slots == _get_rrule(m)
    IN {IF is_allday(start(m)) THEN RawDate(DateOf(slots[k]).v)
        ELSE RawDateTime(slots[k].v, m.raw.start.timeZone) :
           k \in {j \in 2..Len(slots) : DateOf(slots[j]).v < MaxDay}}
InstanceStarts(m) ==
    IF is_allday(start(m)) THEN {RawDate(d) : d \in 2..MaxDay}
    ELSE {RawDateTime(t, "") : t \in (2 * TicksPerDay)..((MaxDay + 1) * TicksPerDay - 1)}
InstanceStates ==
    {<<"confirmed", NoAttendees>>, <<"cancelled", NoAttendees>>,
     <<"confirmed", SelfDeclined>>, <<"confirmed", OthersDeclined>>}
ExceptionRaws(m, ids) ==
    {Raw(i, "A", st[1], s, o, NoRecurrence, st[2], 0) :
        i \in ids, st \in InstanceStates,
        s \in InstanceStarts(m), o \in OriginalStarts(m)}

Afters == {PyDate(d) : d \in 1..(MaxDay - 1)} \cup
          {PyDateTime(2 * TicksPerDay + k, default_timezone) : k \in 0..(TicksPerDay - 1)}

Init ==
    /\ \E raw \in MasterRaws :
          \* a cancelled series is not synced; a cancelled single event may be
          /\ raw.recurrence.present => raw.status = "confirmed"
          /\ LET r == from_raw(EmptyHeap, raw)
             IN events = r.heap.events /\ dicts = r.heap.dicts /\ orig = r.event
    /\ cpy = 0
    /\ callerRaw = NoRaw
    /\ passed = <<>>
    /\ created = <<>>
    /\ saved = [k \in Keys |-> NoneP]
    /\ after = NoneV
    /\ result = NoCall
    /\ Unsaved

\* the original starts already overridden by the instances of m other than id
Overridden(E, m, id) ==
    {E[E[m].exceptions[i].event].raw.originalStartTime :
        i \in {j \in 1..Len(E[m].exceptions) : E[m].exceptions[j].key # id}}

\* One sync: the driver feeds the instance records of the series (a new id or
\* a known one, no two instances overriding the same slot), then queries.
UpdateException ==
    /\ after = NoneV
    /\ _get_recurrence(events[orig]).present
    /\ LET n == Len(events[orig].exceptions)
           ids == 1..(IF n < MaxExceptions THEN n + 1 ELSE n)
       IN \E raw \in ExceptionRaws(events[orig], ids) :
             /\ raw.originalStartTime \notin Overridden(events, orig, raw.id)
             /\ events' = update_exception([events |-> events, dicts |-> dicts],
                                           orig, raw).events
    /\ UNCHANGED <<dicts, orig, cpy, callerRaw, passed, created, saved, after, result>>

NextOccurrence ==
    /\ \E a \in Afters :
          /\ after' = a
          /\ result' = next_occurrence(events, orig, a)
    /\ UNCHANGED <<events, dicts, orig, cpy, callerRaw, passed, created, saved>>

Next ==
    \/ UpdateException /\ Quiet
    \/ NextOccurrence /\ Quiet

Spec == Init /\ [][Next]_vars

\* ------------------------------------------- updates and private properties
ExtendedProperties ==
    {[present |-> FALSE, d |-> NoPrivate],
     [present |-> TRUE, d |-> NoPrivate],
     [present |-> TRUE,
      d |-> Private([k \in Keys |-> IF k = "todoist_id" THEN StrP("7") ELSE NoneP])]}
\* the records of the cached series: all-day or timed, with and without
\* private properties
CowRecords ==
    {Raw(0, su, "confirmed", s, AbsentStart, Daily(1, 0), NoAttendees, x) :
        su \in {"A", "B"},
        s \in {RawDate(1), RawDateTime(TicksPerDay, "UTC")},
        x \in ExtendedProperties}
CowInstanceRecords ==
    {Raw(i, "A", "confirmed", s, s, NoRecurrence, NoAttendees,
         [present |-> FALSE, d |-> NoPrivate]) :
        i \in 1..MaxExceptions,
        s \in {RawDate(2), RawDateTime(2 * TicksPerDay, "")}}
Values == {IntP("7"), StrP("7"), StrP("8")}

\* event = CalendarEvent.from_raw(calendar, record)
Created(records) ==
    \E view \in records :
        LET m == Materialize(<<>>, view)
            r == from_raw([events |-> <<>>, dicts |-> m.dicts], m.raw)
            G == Collect(r.heap, r.event, 0, m.raw)
        IN /\ events = G.events /\ dicts = G.dicts
           /\ orig = G.orig /\ cpy = G.cpy /\ callerRaw = G.callerRaw
           /\ passed = (view.id :> view)
           /\ created = (view.id :> (view.start.key = "date"))
           /\ saved = [k \in Keys |-> NoneP]
           /\ after = NoneV
           /\ result = NoCall
           /\ Unsaved

InitCow == Created(CowRecords)

NextCow ==
    \/ UpdateFromRaw(orig, CowRecords) /\ Quiet
    \/ SavePrivateInfo(orig, Keys, Values) /\ Quiet
    \/ SetSummary(orig, {"C"}) /\ Quiet
    \/ UpdateExceptionOf(orig, CowInstanceRecords) /\ Quiet

SpecCow == InitCow /\ [][NextCow]_vars

\* ------------------------------------------------------ an event and its copy
CopyRecords ==
    {Raw(0, "A", "confirmed", RawDateTime(TicksPerDay, "UTC"), AbsentStart,
         Daily(1, 0), NoAttendees, x) :
        x \in {[present |-> FALSE, d |-> NoPrivate],
               [present |-> TRUE,
                d |-> Private([k \in Keys |-> IF k = "todoist_id" THEN StrP("7")
                                              ELSE NoneP])]}}
CopyInstanceRecords ==
    {Raw(i, su, "confirmed", RawDateTime(2 * TicksPerDay, ""),
         RawDateTime(2 * TicksPerDay, "UTC"), NoRecurrence, NoAttendees,
         [present |-> FALSE, d |-> NoPrivate]) :
        i \in 1..MaxExceptions, su \in {"A", "B"}}

\* the calls that mutate event t
Mutate(t) ==
    \/ UpdateFromRaw(t, CopyRecords)
    \/ SavePrivateInfo(t, {"todoist_id"}, {StrP("8")})
    \/ SetSummary(t, {"C"})
    \/ UpdateExceptionOf(t, CopyInstanceRecords)

InitCopy == Created(CopyRecords)

NextCopy ==
    \/ Mutate(orig) /\ Quiet
    \/ cpy # 0 /\ Mutate(cpy) /\ Quiet
    \/ DeepCopy /\ Quiet

SpecCopy == InitCopy /\ [][NextCopy]_vars

\* ------------------------------------------------------------ attendee lists
AttendeeKinds ==
    {Attendee(me, r, st) : me \in BOOLEAN, r \in BOOLEAN,
                           st \in {"declined", "accepted"}}
AttendeeLists ==
    {NoAttendees} \cup
    {Attendees(l) : l \in UNION {[1..n -> AttendeeKinds] : n \in 0..MaxAttendees}}
\* a single timed event on day 2 with every attendee list
AttendeeRecords ==
    {Raw(0, "A", "confirmed", RawDateTime(2 * TicksPerDay, "UTC"), AbsentStart,
         NoRecurrence, a, [present |-> FALSE, d |-> NoPrivate]) :
        a \in AttendeeLists}

InitAttendees == Created(AttendeeRecords)

NextAttendees ==
    \/ UpdateFromRaw(orig, AttendeeRecords) /\ Quiet
    \/ NextOccurrence /\ Quiet

SpecAttendees == InitAttendees /\ [][NextAttendees]_vars

\* ---------------------------------------------------------------- saving
\* records of a single event: two titles, with and without private properties
SaveRecords ==
    {Raw(0, su, "confirmed", RawDateTime(TicksPerDay, "UTC"), AbsentStart,
         NoRecurrence, NoAttendees, x) :
        su \in {"A", "B"}, x \in ExtendedProperties}
\* the titles the driver assigns: one no record has, one some record has
Summaries == {"A", "C"}

InitSave == Created(SaveRecords)

NextSave ==
    \/ UpdateFromRaw(orig, SaveRecords) /\ Noted("update_from_raw")
    \/ SavePrivateInfo(orig, Keys, Values) /\ Noted("save_private_info")
    \/ SetSummary(orig, Summaries) /\ Noted("summary")
    \/ Save

SpecSave == InitSave /\ [][NextSave]_vars

\* =============================================================== claims
\* What the claims speak of, read off the state.
Master == events[orig]
Recurring == _get_recurrence(Master).present
Called == after # NoneV
AllDay == Master.raw.start.key = "date"
MasterDeclined == is_declined_by_me(Master) \/ is_declined_by_others(Master)
\* `after` in the series' shape: a day number (all-day) or an instant (timed)
AfterTime ==
    IF AllDay
    THEN (IF after.type = "date" THEN after.v
          ELSE (after.v + UtcOffset(after.tz)) \div TicksPerDay)
    ELSE (IF after.type = "date"
          THEN after.v * TicksPerDay - UtcOffset(_get_timezone(Master.raw.start))
          ELSE after.v)
Exceptions == {Master.exceptions[i].event : i \in 1..Len(Master.exceptions)}
\* position of exception x in the insertion order
Order(x) == CHOOSE i \in 1..Len(Master.exceptions) : Master.exceptions[i].event = x
QualifyingException(x) ==
    /\ events[x].raw.status # "cancelled"
    /\ ~is_declined_by_me(events[x])
    /\ ~is_declined_by_others(events[x])
\* the exception candidates: qualifying and starting after `after`
ExceptionCandidates ==
    {x \in Exceptions : QualifyingException(x) /\ events[x].raw.start.v > AfterTime}
\* the rule's instants in the series' shape: day numbers or instants
RuleTimes ==
    LET n == IF Master.raw.recurrence.count > 0
             THEN Master.raw.recurrence.count ELSE Horizon
    IN {Master.raw.start.v +
          (k - 1) * Master.raw.recurrence.interval * (IF AllDay THEN 1 ELSE TicksPerDay) :
            k \in 1..n}
OverriddenTimes == {events[x].raw.originalStartTime.v : x \in Exceptions}
\* the regular candidates: after `after` and not an overridden slot
RegularCandidates ==
    IF MasterDeclined THEN {}
    ELSE {t \in RuleTimes : t > AfterTime /\ t \notin OverriddenTimes}
CandidateTimes ==
    {events[x].raw.start.v : x \in ExceptionCandidates} \cup RegularCandidates
Min(S) == CHOOSE m \in S : \A n \in S : m <= n
Returned == result.exc = "" /\ result.when # NoneV
\* the result has the series' shape: a date, or an instant in the series' zone
Shaped ==
    IF AllDay THEN result.when.type = "date"
    ELSE /\ result.when.type = "datetime" /\ result.when.aware
         /\ result.when.tz = _get_timezone(Master.raw.start)

EarliestQualifying ==
    IF CandidateTimes = {} THEN result = Return(NoneV, 0)
    ELSE /\ Returned /\ Shaped
         /\ result.when.v = Min(CandidateTimes)
         /\ \/ result.source = orig /\ result.when.v \in RegularCandidates
            \/ /\ result.source \in ExceptionCandidates
               /\ events[result.source].raw.start.v = result.when.v

\* C1: for a recurring event next_occurrence(after) returns the earliest of
\* the qualifying exception starts after `after` and the rule's instants after
\* `after` that no exception overrides (none when the master is declined),
\* with the event it belongs to, and (None, None) exactly when there is none.
C1_EarliestQualifying == (Called /\ Recurring) => EarliestQualifying

\* C1 on timed series, where the code does return the earliest candidate
C1_Timed == (Called /\ Recurring /\ ~AllDay) => EarliestQualifying
C1_TimedWitness ==
    /\ Called /\ Recurring /\ ~AllDay /\ Returned
    /\ Cardinality(Exceptions) = 2
    /\ result.source = orig /\ ExceptionCandidates # {}

\* C2: a single event (no recurrence) yields (start, self) when it is not
\* declined by self, not declined by all others and starts after `after`,
\* else (None, None); whether it is cancelled makes no difference.
C2_SingleEvent ==
    (Called /\ ~Recurring) =>
        IF /\ ~is_declined_by_me(Master) /\ ~is_declined_by_others(Master)
           /\ Master.raw.start.v > AfterTime
        THEN /\ result = Return(start(Master), orig)
             /\ Shaped /\ result.when.v = Master.raw.start.v
        ELSE result = Return(NoneV, 0)
\* a cancelled, accepted single event in the future is returned
C2_Witness ==
    /\ Called /\ ~Recurring /\ Master.raw.status = "cancelled"
    /\ result.source = orig /\ Returned

\* C3: next_occurrence never returns (t, master) with t the original start of
\* an existing exception, whatever the exception's state, timed or all-day.
C3_NoOverriddenSlot ==
    (Called /\ Recurring) =>
        ~(/\ Returned /\ result.source = orig
          /\ \E x \in Exceptions : PyEq(result.when, _get_original_start(events[x])))
\* C3 on timed series, where overridden slots are skipped
C3_Timed ==
    (Called /\ Recurring /\ ~AllDay) =>
        ~(/\ Returned /\ result.source = orig
          /\ \E x \in Exceptions : PyEq(result.when, _get_original_start(events[x])))

\* the first slot of the rule after `after` is overridden by x, which
\* qualifies and was rescheduled to a later time
SlotsAfter == {t \in RuleTimes : t > AfterTime}
RescheduledFirstSlot(x) ==
    /\ Called /\ Recurring /\ SlotsAfter # {}
    /\ events[x].raw.originalStartTime.v = Min(SlotsAfter)
    /\ QualifyingException(x)
    /\ events[x].raw.start.v > Min(SlotsAfter)
ReturnsException(x) ==
    /\ Returned /\ Shaped /\ result.source = x
    /\ result.when.v = events[x].raw.start.v
\* x is the first of the earliest exception candidates
EarliestException(x) ==
    /\ x \in ExceptionCandidates
    /\ \A y \in ExceptionCandidates \ {x} :
          \/ events[x].raw.start.v < events[y].raw.start.v
          \/ /\ events[x].raw.start.v = events[y].raw.start.v
             /\ Order(x) < Order(y)
\* the daily timed series from day 1 at tick 0, one accepted instance of day 3
\* moved to day 4 at tick 1, queried after day 2
C4_Example ==
    /\ Called /\ after = PyDate(2)
    /\ Master.raw.start = RawDateTime(TicksPerDay, "UTC")
    /\ Master.raw.recurrence = Daily(1, 0) /\ ~MasterDeclined
    /\ Cardinality(Exceptions) = 1
    /\ \A x \in Exceptions :
          /\ events[x].raw.originalStartTime.v = 3 * TicksPerDay
          /\ events[x].raw.start.v = 4 * TicksPerDay + 1
          /\ QualifyingException(x)

C5_DeclinedMaster ==
    (Called /\ Recurring /\ MasterDeclined) =>
        /\ result.source # orig
        /\ IF ExceptionCandidates = {} THEN result = Return(NoneV, 0)
           ELSE \E x \in ExceptionCandidates :
                   EarliestException(x) /\ ReturnsException(x)
\* C5 on timed series
C5_Timed == ~AllDay => C5_DeclinedMaster

\* C10: in a series that is not declined the exception wins ties: when no
\* regular candidate lies strictly before the earliest exception candidate,
\* that exception is returned, also when a regular instant it does not
\* override has exactly its start.
C10_ExceptionWinsTies ==
    (Called /\ Recurring /\ ~MasterDeclined) =>
        \A x \in ExceptionCandidates :
            (/\ EarliestException(x)
             /\ \A t \in RegularCandidates : t >= events[x].raw.start.v)
                => ReturnsException(x)
\* C10 on timed series
C10_Timed == ~AllDay => C10_ExceptionWinsTies
C10_TimedWitness ==
    /\ Called /\ Recurring /\ ~MasterDeclined /\ ~AllDay
    /\ \E x \in ExceptionCandidates :
          /\ ReturnsException(x)
          /\ events[x].raw.start.v \in RegularCandidates

\* the cached event and its exceptions
Cached == {orig} \cup {events[orig].exceptions[i].event :
                          i \in 1..Len(events[orig].exceptions)}

\* whether the start of event e is a bare calendar date
BareDate(e) == start(events[e]).type = "date"

\* C8 as claimed: an event's all-day-ness is the one it was created with,
\* whatever update_from_raw and update_exception refreshes followed.
C8_AsClaimed ==
    \A e \in Cached : BareDate(e) = created[events[e].id]

\* C8 as amended: an event's all-day-ness is that of the record last passed
\* in for it (from_raw, update_from_raw, or update_exception for an
\* instance): start() is a bare date exactly when that record's start carries
\* 'date'; calls that pass no record for the event leave it as it is.
C8_AllDayFollowsRecord ==
    \A e \in Cached :
        BareDate(e) = (passed[events[e].id].start.key = "date")
\* an event and an instance whose all-day-ness is no longer the one at creation
C8_Witness ==
    /\ BareDate(orig) # created[0]
    /\ \E e \in Cached \ {orig} : BareDate(e) # created[events[e].id]

\* C9: after from_raw / update_from_raw and any number of
\* save_private_info(key, value), the event's raw record, extendedProperties
\* included, is the record last passed in, the caller's record object still
\* has that value, and get_private_info(key) is str(value).
C9_CopyOnWrite ==
    /\ RawView(dicts, events[orig].raw) = passed[0]
    /\ RawView(dicts, callerRaw) = passed[0]
    /\ \A k \in Keys :
          saved[k] # NoneP => get_private_info(Heap, orig, k) = Str(saved[k])
\* a number saved twice over a key the record already had
C9_Witness ==
    /\ passed[0].extendedProperties.d.hasPrivate
    /\ \E k \in Keys :
          /\ saved[k] = IntP("7")
          /\ passed[0].extendedProperties.d.private[k] # NoneP
          /\ get_private_info(Heap, orig, k) = StrP("7")
    /\ \E k \in Keys :
          /\ saved[k] = StrP("8")
          /\ events[orig].ext # events[orig].raw.extendedProperties

\* what can be observed of event e: its private properties, summary, raw
\* snapshot and exceptions, by value
ObjectView(e) ==
    [summary |-> events[e].summary,
     raw |-> RawView(dicts, events[e].raw),
     extended_properties |-> DictView(dicts, events[e].ext)]
EventView(e) ==
    [self |-> ObjectView(e),
     exceptions |-> [i \in 1..Len(events[e].exceptions) |->
                       [key |-> events[e].exceptions[i].key,
                        event |-> ObjectView(events[e].exceptions[i].event)]]]

\* C6: after copy = event.deep_copy(), save_private_info, summary
\* assignment, update_from_raw and update_exception on the original leave the
\* copy's private properties, summary, raw snapshot and exceptions unchanged,
\* and the same calls on the copy leave the original's unchanged.
C6_CopyIsolation ==
    [][/\ (cpy # 0 /\ Mutate(orig)) => EventView(cpy)' = EventView(cpy)
       /\ (cpy # 0 /\ Mutate(cpy)) => EventView(orig)' = EventView(orig)]_vars
\* a copy with an exception, differing from its source in summary, private
\* properties and that exception
C6_Witness ==
    /\ cpy # 0
    /\ Len(events[cpy].exceptions) > 0 /\ Len(events[orig].exceptions) > 0
    /\ EventView(cpy).exceptions[1] # EventView(orig).exceptions[1]
    /\ events[cpy].summary # events[orig].summary
    /\ get_private_info(Heap, orig, "todoist_id") = StrP("8")
    /\ get_private_info(Heap, cpy, "todoist_id") = StrP("7")

\* C7: is_declined_by_others is true exactly when the event has at least one
\* attendee that is neither self nor a resource and every such attendee has
\* responseStatus 'declined'; without such attendees (no attendees field, or
\* only self and resource attendees) it is false.
C7_DeclinedByOthers ==
    LET l == Master.raw.attendees.list
        others == {i \in 1..Len(l) : ~l[i].self /\ ~l[i].resource}
    IN /\ is_declined_by_others(Master) <=>
             /\ Master.raw.attendees.present
             /\ others # {}
             /\ \A i \in others : l[i].responseStatus = "declined"
       /\ (~Master.raw.attendees.present \/ others = {}) =>
             ~is_declined_by_others(Master)
\* the only other attendee declined while a resource accepted, and the
\* event, being declined, has no next occurrence
C7_Witness ==
    /\ is_declined_by_others(Master)
    /\ \E i \in 1..Len(Master.raw.attendees.list) :
          /\ Master.raw.attendees.list[i].resource
          /\ Master.raw.attendees.list[i].responseStatus = "accepted"
    /\ after = PyDate(1) /\ result = Return(NoneV, 0)

\* the value the last-synced record holds for private key k
SyncedPrivate(k) ==
    LET x == passed[0].extendedProperties
    IN IF x.present /\ x.d.hasPrivate THEN x.d.private[k] ELSE NoneP
SummaryDiffers == Master.summary # passed[0].summary
PropertiesDiffer == DictView(dicts, Master.ext) # passed[0].extendedProperties
\* the last save_private_info left a value other than the synced one
ChangedPrivate ==
    /\ recent = "save_private_info"
    /\ \E k \in Keys : saved[k] # NoneP /\ Str(saved[k]) # SyncedPrivate(k)

\* C11: save() calls the calendar's update_event(id, fields) if and only if
\* summary or extendedProperties differs from the last-synced raw record, once
\* and with the event's id, and the fields passed are exactly the differing
\* ones with their in-memory values; save() directly after from_raw /
\* update_from_raw makes no call, and save() after a save_private_info that
\* left a value other than the synced one makes a call with extendedProperties.
C11_SaveDiffs ==
    sent.saved =>
        /\ sent.calls # <<>> <=> (SummaryDiffers \/ PropertiesDiffer)
        /\ Len(sent.calls) <= 1
        /\ \A i \in 1..Len(sent.calls) :
              /\ sent.calls[i].id = Master.id
              /\ sent.calls[i].fields.summary =
                     (IF SummaryDiffers THEN <<Master.summary>> ELSE <<>>)
              /\ sent.calls[i].fields.extendedProperties =
                     (IF PropertiesDiffer THEN <<DictView(dicts, Master.ext)>>
                      ELSE <<>>)
        /\ recent \in {"from_raw", "update_from_raw"} => sent.calls = <<>>
        /\ ChangedPrivate =>
              /\ sent.calls # <<>>
              /\ sent.calls[1].fields.extendedProperties # <<>>
\* a save after save_private_info replaced the synced "7" by "8": one call,
\* with extendedProperties holding "8" and without the unchanged summary
C11_Witness ==
    /\ sent.saved /\ ChangedPrivate
    /\ SyncedPrivate("todoist_id") = StrP("7")
    /\ Len(sent.calls) = 1
    /\ sent.calls[1].fields.summary = <<>>
    /\ Len(sent.calls[1].fields.extendedProperties) = 1
    /\ sent.calls[1].fields.extendedProperties[1].d.private["todoist_id"] = StrP("8")
====
